---- MODULE Spec2Model ----
(***************************************************************************)
(* MachineMate backend: the in-memory TraceStore (an OrderedDict used as   *)
(* an LRU cache of TraceEntry values), the InferenceService.identify       *)
(* orchestration over the VLM client, and the client's parser and          *)
(* canonicalizer of model answers, modelled from                           *)
(*   backend/app/services/trace_store.py                                   *)
(*   backend/app/services/inference.py                                     *)
(*   backend/app/services/vlm_client.py                                    *)
(*                                                                         *)
(* Conventions.  An Optional value is a sequence: <<>> is None and <<x>>   *)
(* is the value x.  A float in [0,1] is an integer number of hundredths.   *)
(* A uuid4 string is a natural number drawn from a fresh-id counter.       *)
(* The OrderedDict _entries is the sequence of its values, oldest first.   *)
(***************************************************************************)
EXTENDS Integers, Sequences, FiniteSets, TLC

\* ------------------------------------------------------------------ bounds

\* Largest capacity (max_items) a modelled TraceStore is configured with.
MaxItems == 2

\* Number of distinct trace ids handed to a TraceStore used on its own.
NumTraceIds == 4

\* Number of uuid4 values the service draws in a run.
MaxUuids == 2

\* Number of identify requests that may be in flight at once.
NumRequests == 2

TraceIds == 1..NumTraceIds

Requests == 1..NumRequests

\* ------------------------------------------------------------ Optional[T]

None == <<>>

Some(x) == <<x>>

\* ------------------------------------------------------------ TraceEntry

\* The dataclass with every field at its default; created_at is the value
\* of the default factory at construction time.
TraceEntry(trace_id, now) ==
    [ trace_id       |-> trace_id,
      machine        |-> None,
      confidence     |-> None,
      mocked         |-> FALSE,
      raw_text       |-> None,
      raw_machine    |-> None,
      match_score    |-> None,
      unmapped       |-> FALSE,
      model          |-> None,
      prompt         |-> None,
      prompt_variant |-> None,
      error          |-> None,
      created_at     |-> now ]

\* ------------------------------------------------------------------- str

\* A Python str whose characters matter (a machine name, a label the model
\* emits) is the sequence of its characters.

\* config._load_default_machine_options: the fallback names
ChestPressMachine == << "C", "h", "e", "s", "t", " ", "P", "r", "e", "s", "s", " ", "M", "a", "c", "h", "i", "n", "e" >>

LatPulldown == << "L", "a", "t", " ", "P", "u", "l", "l", "d", "o", "w", "n" >>

SeatedCableRow == << "S", "e", "a", "t", "e", "d", " ", "C", "a", "b", "l", "e", " ", "R", "o", "w" >>

SeatedLegPress == << "S", "e", "a", "t", "e", "d", " ", "L", "e", "g", " ", "P", "r", "e", "s", "s" >>

ShoulderPressMachine == << "S", "h", "o", "u", "l", "d", "e", "r", " ", "P", "r", "e", "s", "s", " ", "M", "a", "c", "h", "i", "n", "e" >>

Treadmill == << "T", "r", "e", "a", "d", "m", "i", "l", "l" >>

\* DEFAULT_MACHINE_OPTIONS when machines.json yields no names
DEFAULT_MACHINE_OPTIONS ==
    << ChestPressMachine, LatPulldown, SeatedCableRow, SeatedLegPress,
       ShoulderPressMachine, Treadmill >>

\* no parser call has been made
NoCall == [ fn |-> "none" ]

\* Number of favorites requests that may be in flight at once, each with its
\* own AsyncSession.
NumSessions == 2

Sessions == 1..NumSessions

\* no favorites request holds the session
NoSession == [ op |-> "none", user_id |-> "", machine_id |-> "", notes |-> << >>,
               pc |-> "" ]

\* --------------------------------------------------------------- state

VARIABLES
    max_items,               \* TraceStore.max_items
    entries,                 \* TraceStore._entries, oldest first
    \* The next four are history of a store used on its own (SpecStore); the
    \* service's actions leave them alone.
    last,                    \* the call that produced this state, its arguments and
                             \* what it returned
    evicted,                 \* history: ids dropped by _trim and not recorded since
    recency,                 \* history: the stored ids, least recently recorded or read first
    watch,                   \* history: the id refreshed by the last successful get, and
                             \* the ids stored with it that are still stored
    enable_mock_responses,   \* settings.enable_mock_responses
    api_mode,                \* VLMClient.api_mode
    next_uuid,               \* the next value uuid.uuid4() returns
    pc,                      \* per request: where identify stands
    trace,                   \* per request: trace_id of the upstream attempt in flight
    posts,                   \* per request: the upstream calls (client.post) the
                             \* identify call in flight has made
    finished,                \* the identify call that ended last: its upstream outcome,
                             \* what it returned or raised, the entries it recorded
                             \* (None once a later upload was turned away)
    fetched,                 \* what GET /traces/{trace_id} answered, when it is the
                             \* request that ended last
    answered,                \* what POST /identify answered last
    machine_options,         \* VLMClient.machine_options, the catalog
    pcall,                   \* the parser call that ended last: its argument and
                             \* what it returned or raised
    favorites,               \* the committed rows of table favorites
    db,                      \* per favorites request in flight: the handler, its
                             \* arguments and the statement it is at
    running,                 \* the task the event loop is running (0: none, the loop
                             \* is free to start or resume one)
    work,                    \* per task: the entries it has still to record
    shadow,                  \* history: the store as it would be had every record,
                             \* get and clear run in one step when it began
    fdone                    \* the favorites request that ended last: what it was
                             \* answered, whether its pair had a row (when its query
                             \* ran, when its last step ran), the rows its last step
                             \* removed and added, and the user's rows after it

storeVars == <<max_items, entries, last, evicted, recency, watch>>

storeHistory == <<last, evicted, recency, watch>>

serviceVars == <<enable_mock_responses, api_mode, next_uuid, pc, trace, posts, finished,
                 fetched, answered>>

parserVars == <<machine_options, pcall>>

favVars == <<favorites, db, fdone>>

loopVars == <<running, work, shadow>>

vars == <<max_items, entries, last, evicted, recency, watch,
          enable_mock_responses, api_mode, next_uuid, pc, trace, posts, finished,
          fetched, answered, machine_options, pcall, favorites, db, fdone,
          running, work, shadow>>

\* ------------------------------------------------------------ TraceStore

Ids(es) == { es[i].trace_id : i \in 1..Len(es) }

\* `trace_id in self._entries`
Contains(es, trace_id) == trace_id \in Ids(es)

\* OrderedDict.get(trace_id): the stored value or None
Lookup(es, trace_id) ==
    IF Contains(es, trace_id)
    THEN Some(es[CHOOSE i \in 1..Len(es) : es[i].trace_id = trace_id])
    ELSE None

\* OrderedDict.pop(trace_id)
Pop(es, trace_id) == SelectSeq(es, LAMBDA x : x.trace_id # trace_id)

\* OrderedDict.popitem(last=True): drops the newest item
popitem_last(es) == SubSeq(es, 1, Len(es) - 1)

\* OrderedDict.popitem(last=False): drops the oldest item
popitem_first(es) == Tail(es)

\* a _trim that stops one item too early
RECURSIVE trim_lax(_, _)
trim_lax(es, cap) ==
    IF Len(es) > cap + 1 THEN trim_lax(popitem_first(es), cap) ELSE es

\* TraceStore._trim
RECURSIVE trim(_, _)
trim(es, cap) ==
    IF Len(es) > cap THEN trim(popitem_first(es), cap) ELSE es

\* OrderedDict.__setitem__: a present key keeps its position, a new key goes last
setitem(es, e) ==
    IF Contains(es, e.trace_id)
    THEN [ i \in 1..Len(es) |-> IF es[i].trace_id = e.trace_id THEN e ELSE es[i] ]
    ELSE Append(es, e)

\* record without the pop of the old entry
record_no_pop(es, e, cap) == trim(setitem(es, e), cap)

\* TraceStore.record
record(es, e, cap) ==
    trim(setitem(IF Contains(es, e.trace_id) THEN Pop(es, e.trace_id) ELSE es, e), cap)

\* a move_to_end that leaves the order alone
move_to_end_noop(es, trace_id) == es

\* OrderedDict.move_to_end(trace_id)
move_to_end(es, trace_id) == Append(Pop(es, trace_id), Lookup(es, trace_id)[1])

\* a get that empties the store when it misses
get_entries_clearing(es, trace_id) ==
    IF Lookup(es, trace_id) # None THEN move_to_end(es, trace_id) ELSE << >>

\* TraceStore.get: the order of _entries after the call
get_entries(es, trace_id) ==
    IF Lookup(es, trace_id) # None THEN move_to_end(es, trace_id) ELSE es

\* TraceStore.get: the value returned
get_value(es, trace_id) == Lookup(es, trace_id)

\* TraceStore.clear
clear(es) == << >>

\* ---------------------------------------------------- history bookkeeping

\* op: the operation; trace_id, entry: its arguments; ret: what it returned;
\* before: _entries before it; lru: the least recently used id before it (0: none);
\* prev: the entry the operation before it recorded, if it was a record.
NoOp == [ op |-> "init", trace_id |-> 0, entry |-> None, ret |-> None,
          before |-> << >>, lru |-> 0, prev |-> None ]

\* the id `trace_id` was just recorded or read: it becomes the most recent one
Touch(rec, trace_id) == Append(SelectSeq(rec, LAMBDA t : t # trace_id), trace_id)

\* the recency order restricted to the ids that are stored
Stored(rec, es) == SelectSeq(rec, LAMBDA t : t \in Ids(es))

LeastRecent(rec) == IF rec = << >> THEN 0 ELSE rec[1]

\* ids that a record of e dropped from the store es, leaving es2
Dropped(es, e, es2) == (Ids(es) \cup {e.trace_id}) \ Ids(es2)

\* the entry recorded by the operation `l`, if it was a record
RecordedBy(l) == IF l.op = "record" THEN l.entry ELSE None

\* ---------------------------------------- TraceStore used on its own

\* The payloads a caller hands to record: a failure entry and a mock entry.
SampleEntries(trace_id) ==
    { [ TraceEntry(trace_id, 0) EXCEPT !.error = Some("ConnectError: boom"),
                                       !.model = Some("qwen-vl-chat") ],
      [ TraceEntry(trace_id, 1) EXCEPT !.machine = Some("Unknown"), !.confidence = Some(0),
                                       !.mocked = TRUE, !.unmapped = TRUE ] }

StoreInit ==
    /\ max_items \in 0..MaxItems
    /\ entries = << >>
    /\ last = NoOp
    /\ evicted = {}
    /\ recency = << >>
    /\ watch = None
    /\ enable_mock_responses = TRUE
    /\ api_mode = "openai"
    /\ next_uuid = 1
    /\ pc = [ r \in Requests |-> "idle" ]
    /\ trace = [ r \in Requests |-> 0 ]
    /\ posts = [ r \in Requests |-> 0 ]
    /\ finished = None
    /\ fetched = None
    /\ answered = None
    /\ favorites = {}
    /\ db = [ s \in Sessions |-> NoSession ]
    /\ fdone = None
    /\ running = 0
    /\ work = [ r \in Requests |-> << >> ]
    /\ shadow = << >>
    /\ machine_options = None
    /\ pcall = NoCall

\* trace_store.record(e)
TraceStore_record(e) ==
    /\ entries' = record(entries, e, max_items)
    /\ last' = [ NoOp EXCEPT !.op = "record", !.trace_id = e.trace_id, !.entry = Some(e),
                             !.before = entries, !.lru = LeastRecent(recency),
                             !.prev = RecordedBy(last) ]
    /\ evicted' = (evicted \ {e.trace_id}) \cup Dropped(entries, e, entries')
    /\ recency' = Stored(Touch(recency, e.trace_id), entries')
    /\ watch' = IF Contains(entries, e.trace_id) \/ watch = None
                THEN None
                ELSE Some([ trace_id |-> watch[1].trace_id,
                            peers |-> watch[1].peers \cap Ids(entries') ])
    /\ UNCHANGED <<max_items, serviceVars, parserVars, favVars, loopVars>>

\* trace_store.get(trace_id)
TraceStore_get(trace_id) ==
    /\ entries' = get_entries(entries, trace_id)
    /\ last' = [ NoOp EXCEPT !.op = "get", !.trace_id = trace_id,
                             !.ret = get_value(entries, trace_id),
                             !.before = entries, !.lru = LeastRecent(recency),
                             !.prev = RecordedBy(last) ]
    /\ recency' = IF trace_id \in Ids(entries) THEN Touch(recency, trace_id) ELSE recency
    /\ watch' = IF get_value(entries, trace_id) # None
                THEN Some([ trace_id |-> trace_id, peers |-> Ids(entries) \ {trace_id} ])
                ELSE watch
    /\ UNCHANGED <<max_items, evicted, serviceVars, parserVars, favVars, loopVars>>

\* trace_store.clear()
TraceStore_clear ==
    /\ entries' = clear(entries)
    /\ last' = [ NoOp EXCEPT !.op = "clear", !.before = entries,
                             !.lru = LeastRecent(recency), !.prev = RecordedBy(last) ]
    /\ recency' = << >>
    /\ watch' = None
    /\ UNCHANGED <<max_items, evicted, serviceVars, parserVars, favVars, loopVars>>

StoreNext ==
    \/ \E t \in TraceIds : \E e \in SampleEntries(t) : TraceStore_record(e)
    \/ \E t \in TraceIds : TraceStore_get(t)
    \/ TraceStore_clear

SpecStore == StoreInit /\ [][StoreNext]_vars

\* ------------------------------------------------------------ VLMClient

\* settings.vlm_model
vlm_model == Some("qwen-vl-chat")

\* VLMClient.prompt
prompt == Some("You are a gym machine identifier. ...")

\* VLMClient.prompt_variant
prompt_variant == Some("enhanced_baseline")

\* datetime.now(tz=timezone.utc): wall-clock time is not modelled, every
\* entry the service builds carries the same instant.
Now == 0

\* VLMClient._detect_api_mode
ApiModes == { "disabled", "huggingface", "openai" }

\* What one upstream call can come back with.
\*   http_error            client.post raised httpx.HTTPError (network, timeout)
\*   status_5xx            status_code >= 500 (503 while Hugging Face warms up)
\*   status_4xx            400 <= status_code < 500
\*   body_not_json         status 200, response.json() raises ValueError
\*   no_message_text       openai: no choices, or no text in the message
\*   hf_error_body         huggingface: the body is a dict with "error"
\*   text_not_json         the text holds no JSON object
\*   text_json_not_object  the text is JSON but not an object (42, [1], null)
\*   text_missing_fields   the object lacks machine or a usable confidence
\*   text_huge_confidence  the object's confidence is an integer past the float range
\*   text_ok               _parse_machine_json returns a parsed dict
Outcomes(mode) ==
    { "http_error", "status_5xx", "status_4xx", "body_not_json", "text_not_json",
      "text_json_not_object", "text_missing_fields", "text_huge_confidence", "text_ok" }
    \cup (IF mode = "openai" THEN { "no_message_text" } ELSE { "hf_error_body" })

\* The dicts _parse_machine_json returns that the service is exercised with:
\* a canonical match and an unmapped label.
ParsedSamples ==
    { [ machine |-> "Lat Pulldown", confidence |-> 88, raw_machine |-> Some("lat pulldown"),
        match_score |-> Some(100), unmapped |-> FALSE,
        raw_text |-> "{\"machine\":\"lat pulldown\",\"confidence\":0.88}" ],
      [ machine |-> "mystery device", confidence |-> 49, raw_machine |-> Some("mystery device"),
        match_score |-> Some(31), unmapped |-> TRUE,
        raw_text |-> "{\"machine\":\"mystery device\",\"confidence\":0.9}" ] }

\* a classify that treats a 5xx status like a transport failure
RaisesUnavailable_5xx(o) == o \in { "http_error", "status_5xx" }

\* the upstream outcomes on which _classify_* raises InferenceUnavailable
RaisesUnavailable(o) == o = "http_error"

\* the upstream outcomes on which _classify_* lets another exception escape
RaisesOther(o) == o \in { "body_not_json", "text_json_not_object", "text_huge_confidence" }

\* the exception that escapes
ExceptionOf(o) ==
    CASE o = "body_not_json" -> "ValueError"
      [] o = "text_huge_confidence" -> "OverflowError"
      [] OTHER -> "AttributeError"

\* the upstream outcomes on which _classify_* returns None
ReturnsNone(o) ==
    o \in { "status_5xx", "status_4xx", "no_message_text", "hf_error_body",
            "text_not_json", "text_missing_fields" }

\* a _record_failure that drops the error text
record_failure_no_error(trace_id, error) ==
    [ TraceEntry(trace_id, Now) EXCEPT !.mocked = FALSE, !.model = vlm_model,
                                       !.prompt = prompt ]

\* VLMClient._record_failure: the entry it records
record_failure(trace_id, error) ==
    [ TraceEntry(trace_id, Now) EXCEPT !.mocked = FALSE, !.error = Some(error),
                                       !.model = vlm_model, !.prompt = prompt ]

\* VLMResponse(...) as _classify_* builds it from the parsed dict
VLMResponse(parsed, trace_id) ==
    [ machine        |-> parsed.machine,
      confidence     |-> parsed.confidence,
      raw_text       |-> parsed.raw_text,
      trace_id       |-> trace_id,
      mocked         |-> FALSE,
      raw_machine    |-> parsed.raw_machine,
      match_score    |-> parsed.match_score,
      unmapped       |-> parsed.unmapped,
      prompt_variant |-> prompt_variant ]

\* VLMClient.classify: what it returns or raises, and the entries it records.
\* kind is "none", "response", "InferenceUnavailable" or the escaping exception.
classify(mode, o, parsed, trace_id) ==
    IF mode = "disabled" THEN
        [ kind |-> "none", value |-> None, trace_id |-> None, records |-> << >> ]
    ELSE IF RaisesUnavailable(o) THEN
        [ kind |-> "InferenceUnavailable", value |-> None, trace_id |-> Some(trace_id),
          records |-> << record_failure(trace_id, "ConnectError: boom") >> ]
    ELSE IF RaisesOther(o) THEN
        [ kind |-> ExceptionOf(o), value |-> None, trace_id |-> None, records |-> << >> ]
    ELSE IF o = "text_ok" THEN
        [ kind |-> "response", value |-> Some(VLMResponse(parsed, trace_id)),
          trace_id |-> None, records |-> << >> ]
    ELSE
        [ kind |-> "none", value |-> None, trace_id |-> None, records |-> << >> ]

\* ----------------------------------------------------- InferenceService

\* UNKNOWN_FALLBACK
UNKNOWN_FALLBACK == << "Unknown", 0 >>

IdentifyResponse(machine, confidence, trace_id, mocked) ==
    [ machine |-> machine, confidence |-> confidence, trace_id |-> trace_id,
      mocked |-> mocked ]

\* what identify hands back: a response, or the exception it lets through
Returned(response, records, uuids) ==
    [ kind |-> "returned", response |-> Some(response), trace_id |-> None,
      records |-> records, uuids |-> uuids ]

Raised(exception, trace_id, records) ==
    [ kind |-> exception, response |-> None, trace_id |-> trace_id,
      records |-> records, uuids |-> 0 ]

\* a _build_response_from_vlm that forgets to record the trace
build_response_no_record(v) ==
    Returned(IdentifyResponse(v.machine, v.confidence, v.trace_id, v.mocked), << >>, 0)

\* InferenceService._build_response_from_vlm
build_response_from_vlm(v) ==
    Returned(IdentifyResponse(v.machine, v.confidence, v.trace_id, v.mocked),
             << [ TraceEntry(v.trace_id, Now) EXCEPT
                    !.machine = Some(v.machine), !.confidence = Some(v.confidence),
                    !.mocked = v.mocked, !.raw_text = Some(v.raw_text),
                    !.raw_machine = v.raw_machine, !.match_score = v.match_score,
                    !.unmapped = v.unmapped, !.model = vlm_model, !.prompt = prompt,
                    !.prompt_variant = v.prompt_variant ] >>,
             0)

\* a _mock_response that leaves the mocked flag of the response off
mock_response_unflagged(trace_id) ==
    Returned(IdentifyResponse(UNKNOWN_FALLBACK[1], UNKNOWN_FALLBACK[2], trace_id, FALSE),
             << [ TraceEntry(trace_id, Now) EXCEPT
                    !.machine = Some(UNKNOWN_FALLBACK[1]),
                    !.confidence = Some(UNKNOWN_FALLBACK[2]),
                    !.mocked = TRUE, !.raw_machine = Some(UNKNOWN_FALLBACK[1]),
                    !.match_score = Some(0), !.unmapped = TRUE, !.model = vlm_model,
                    !.prompt = prompt, !.prompt_variant = prompt_variant ] >>,
             1)

\* InferenceService._mock_response; trace_id is the uuid4 it draws
mock_response(trace_id) ==
    Returned(IdentifyResponse(UNKNOWN_FALLBACK[1], UNKNOWN_FALLBACK[2], trace_id, TRUE),
             << [ TraceEntry(trace_id, Now) EXCEPT
                    !.machine = Some(UNKNOWN_FALLBACK[1]),
                    !.confidence = Some(UNKNOWN_FALLBACK[2]),
                    !.mocked = TRUE, !.raw_machine = Some(UNKNOWN_FALLBACK[1]),
                    !.match_score = Some(0), !.unmapped = TRUE, !.model = vlm_model,
                    !.prompt = prompt, !.prompt_variant = prompt_variant ] >>,
             1)

\* InferenceService.identify, from the point where classify has come back
\* with c; fresh is the uuid4 _mock_response would draw.
identify(c, mock_enabled, fresh) ==
    LET after(r) == [ r EXCEPT !.records = c.records \o r.records ]
    IN  IF c.kind = "InferenceUnavailable" THEN
            IF mock_enabled THEN after(mock_response(fresh))
            ELSE Raised("InferenceUnavailable", c.trace_id, c.records)
        ELSE IF c.kind = "response" THEN after(build_response_from_vlm(c.value[1]))
        ELSE IF c.kind = "none" THEN
            IF mock_enabled THEN after(mock_response(fresh))
            ELSE Raised("RuntimeError", None, c.records)
        ELSE Raised(c.kind, None, c.records)

\* trace_store.record applied to each entry of rs in turn
RECURSIVE record_all(_, _, _)
record_all(es, rs, cap) ==
    IF rs = << >> THEN es ELSE record_all(record(es, Head(rs), cap), Tail(rs), cap)

\* ------------------------------------------------------ POST /identify

\* an identify_machine without the `except RuntimeError` clause
status_code_unhandled_runtime(kind) ==
    CASE kind = "returned" -> 200
      [] kind = "InferenceUnavailable" -> 503
      [] OTHER -> 500

\* identify_machine: the status the caller gets for what service.identify
\* returned or raised.  InferenceUnavailable and RuntimeError are turned into
\* HTTPException(503); any other exception is not caught and leaves the
\* application as a 500.
status_code(kind) ==
    CASE kind = "returned" -> 200
      [] kind \in { "InferenceUnavailable", "RuntimeError" } -> 503
      [] OTHER -> 500

\* identify_machine from `result = await service.identify(payload)` on; res is
\* what identify returned or raised.  detail is str(error): the trace id the
\* message of InferenceUnavailable names, or None.
identify_machine(res) ==
    [ status_code |-> status_code(res.kind),
      body        |-> res.response,
      detail      |-> IF res.kind = "InferenceUnavailable" THEN res.trace_id ELSE None ]

\* HTTPException(status_code=...) raised before the service is called
HTTPException(code) == [ status_code |-> code, body |-> None, detail |-> None ]

\* one more upstream call that sends the request twice
post_twice(n) == n + 2

\* `response = await client.post(...)`: one more upstream call
post(n) == n + 1

\* --------------------------------------- the service over the shared store

\* The process: trace_store = TraceStore() (its capacity scaled down to
\* 1..MaxItems), the settings, and no request in flight.
Init ==
    /\ max_items \in 1..MaxItems
    /\ entries = << >>
    /\ last = NoOp
    /\ evicted = {}
    /\ recency = << >>
    /\ watch = None
    /\ enable_mock_responses \in BOOLEAN
    /\ api_mode \in ApiModes
    /\ next_uuid = 1
    /\ pc = [ r \in Requests |-> "idle" ]
    /\ trace = [ r \in Requests |-> 0 ]
    /\ posts = [ r \in Requests |-> 0 ]
    /\ finished = None
    /\ fetched = None
    /\ answered = None
    /\ favorites = {}
    /\ db = [ s \in Sessions |-> NoSession ]
    /\ fdone = None
    /\ running = 0
    /\ work = [ r \in Requests |-> << >> ]
    /\ shadow = << >>
    /\ machine_options = DEFAULT_MACHINE_OPTIONS
    /\ pcall = NoCall

\* In-flight requests are interchangeable: a new one takes the first free slot.
FreeSlot(r) == pc[r] = "idle" /\ \A q \in Requests : q < r => pc[q] # "idle"

\* identify runs from classify's return to its own return or raise: no await
\* lies in between, so the records and the result are one step.
Finish(r, o, c) ==
    LET res == identify(c, enable_mock_responses, next_uuid)
    IN  /\ next_uuid + res.uuids <= MaxUuids + 1
        /\ entries' = record_all(entries, res.records, max_items)
        /\ next_uuid' = next_uuid + res.uuids
        /\ pc' = [ pc EXCEPT ![r] = "idle" ]
        /\ trace' = [ trace EXCEPT ![r] = 0 ]
        /\ posts' = [ posts EXCEPT ![r] = 0 ]
        /\ finished' = Some([ outcome |-> o, attempt |-> trace[r], posts |-> posts[r],
                              kind |-> res.kind,
                              response |-> res.response, trace_id |-> res.trace_id,
                              records |-> res.records ])
        /\ fetched' = None
        /\ answered' = Some(identify_machine(res))

\* identify with no base url: classify returns None at once ("vlm.disabled")
identify_disabled(r) ==
    /\ FreeSlot(r)
    /\ api_mode = "disabled"
    /\ Finish(r, "disabled", classify(api_mode, "disabled", CHOOSE p \in ParsedSamples : TRUE, 0))
    /\ UNCHANGED <<max_items, storeHistory, enable_mock_responses, api_mode, parserVars, favVars, loopVars>>

\* identify up to the await of client.post: _classify_* has drawn its trace id
identify_post(r) ==
    /\ FreeSlot(r)
    /\ api_mode # "disabled"
    /\ next_uuid <= MaxUuids
    /\ trace' = [ trace EXCEPT ![r] = next_uuid ]
    /\ next_uuid' = next_uuid + 1
    /\ posts' = [ posts EXCEPT ![r] = post(posts[r]) ]
    /\ pc' = [ pc EXCEPT ![r] = "awaiting" ]
    /\ fetched' = None
    /\ UNCHANGED <<max_items, entries, storeHistory, enable_mock_responses,
                   api_mode, finished, answered, parserVars, favVars, loopVars>>

\* the upstream call comes back with outcome o (and, for text_ok, the parsed
\* dict p); identify runs to its end
identify_resume(r, o, p) ==
    /\ pc[r] = "awaiting"
    /\ Finish(r, o, classify(api_mode, o, p, trace[r]))
    /\ UNCHANGED <<max_items, storeHistory, enable_mock_responses, api_mode, parserVars, favVars, loopVars>>

\* TraceDetails(...) as fetch_trace builds it: prompt_variant is not passed
\* and keeps its default
TraceDetails(entry) ==
    [ trace_id       |-> entry.trace_id,
      machine        |-> entry.machine,
      confidence     |-> entry.confidence,
      mocked         |-> entry.mocked,
      raw_text       |-> entry.raw_text,
      raw_machine    |-> entry.raw_machine,
      match_score    |-> entry.match_score,
      unmapped       |-> entry.unmapped,
      model          |-> entry.model,
      prompt         |-> entry.prompt,
      prompt_variant |-> None,
      error          |-> entry.error,
      created_at     |-> entry.created_at ]

\* GET /traces/{trace_id}: trace_store.get, 404 when it returns None
fetch_trace(trace_id) ==
    LET entry == get_value(entries, trace_id)
    IN  /\ entries' = get_entries(entries, trace_id)
        /\ fetched' = Some([ trace_id |-> trace_id,
                             status_code |-> IF entry = None THEN 404 ELSE 200,
                             body |-> IF entry = None THEN None
                                      ELSE Some(TraceDetails(entry[1])) ])
        /\ UNCHANGED <<max_items, storeHistory, enable_mock_responses, api_mode,
                       next_uuid, pc, trace, posts, finished, answered, parserVars, favVars, loopVars>>

\* POST /identify with an upload the handler turns away before it calls the
\* service: 415 for a content type that is not image/*, 422 for an empty
\* payload
identify_machine_rejects(code) ==
    /\ answered' = Some(HTTPException(code))
    /\ finished' = None
    /\ fetched' = None
    /\ UNCHANGED <<storeVars, enable_mock_responses, api_mode, next_uuid, pc, trace,
                   posts, parserVars, favVars, loopVars>>

Next ==
    \/ \E r \in Requests : identify_disabled(r)
    \/ \E r \in Requests : identify_post(r)
    \/ \E r \in Requests : \E o \in Outcomes(api_mode) \ { "text_ok" } :
          identify_resume(r, o, CHOOSE p \in ParsedSamples : TRUE)
    \/ \E r \in Requests : \E p \in ParsedSamples : identify_resume(r, "text_ok", p)
    \/ \E t \in 1..MaxUuids : fetch_trace(t)
    \/ \E code \in { 415, 422 } : identify_machine_rejects(code)

Spec == Init /\ [][Next]_vars

\* ------------------------------------------------- the parser: its inputs

\* Longest catalog the parser is exercised with, next to the default one.
MaxOptions == 2

\* a name an operator configures (API_MACHINE_OPTIONS) that differs from
\* LatPulldown in case and punctuation only
LatPulldownHyphen == << "l", "a", "t", "-", "p", "u", "l", "l", "d", "o", "w", "n" >>

\* the names catalogs are drawn from
NamePool == { ChestPressMachine, LatPulldown, LatPulldownHyphen, Treadmill }

\* VLMClient.machine_options: settings.api_machine_options or the default, so
\* never empty; the names are distinct, non-empty and stripped.
Catalogs ==
    { DEFAULT_MACHINE_OPTIONS }
    \cup UNION { { c \in [ 1..n -> NamePool ] : \A i, j \in 1..n : c[i] = c[j] => i = j } :
                 n \in 1..MaxOptions }

\* the labels a model answer carries in "machine"
RawLabels ==
    NamePool
    \cup { << "l", "a", "t", " ", "p", "u", "l", "l", "d", "o", "w", "n" >>,
           << "L", "A", "T", " ", "P", "U", "L", "L", "D", "O", "W", "N", "!" >>,
           << "l", "e", "g", " ", "p", "r", "e", "s", "s" >>,
           << "t", "r", "e", "a", "d", "m", "i", "l", "l", " ", "m", "a", "c", "h", "i", "n", "e" >>,
           << "c", "h", "e", "s", "t", " ", "p", "r", "e", "s", "s", " ", "a", "p", "p", "a", "r", "a", "t", "u", "s" >>,
           << "t", "r", "e", "a", "d", "-", "m", "i", "l", "l", "s" >>,
           << "l", "a", "t", " ", "p", "u", "l", "l", "d", "w", "n" >>,
           << "l", "a", "t", " ", "p", "u", "l", "l", "u", "p" >>,
           << "m", "y", "s", "t", "e", "r", "y", " ", "d", "e", "v", "i", "c", "e" >>,
           << " ", "t", "r", "e", "a", "d", "m", "i", "l", "l", " " >>,
           << " ", " " >>,
           << "?", "?" >>,
           << >> }

\* Python values, as json.loads builds them.  A float is its number of
\* hundredths, or nan; BigInt is an int beyond the range of float, such as
\* 10**400.
PyNone == [ t |-> "None" ]

PyBool(b) == [ t |-> "bool", v |-> b ]

PyInt(n) == [ t |-> "int", v |-> n ]

BigInt == [ t |-> "bigint" ]

PyFloat(h) == [ t |-> "float", v |-> h, nan |-> FALSE ]

NaN == [ t |-> "float", v |-> 0, nan |-> TRUE ]

PyStr(s) == [ t |-> "str", v |-> s ]

PyList == [ t |-> "list" ]

\* a dict; a key the object lacks is None here, a key it has is Some(value)
PyDict(machine, confidence) ==
    [ t |-> "dict", machine |-> machine, confidence |-> confidence ]

\* what "machine" holds in the objects the parser is exercised with
MachineValues ==
    { None, Some(PyNone), Some(PyInt(0)), Some(PyInt(7)) }
    \cup { Some(PyStr(l)) : l \in RawLabels }

\* the finite confidences, in hundredths: -3.0, 0.0, 0.3, 0.49, 0.55, 0.6,
\* 0.75, 1.0, 5.0
ConfidenceLevels == { -300, 0, 30, 49, 55, 60, 75, 100, 500 }

\* what "confidence" holds: "0.5" and "high" are the strings
ConfidenceValues ==
    { None, Some(PyNone), Some(NaN), Some(BigInt), Some(PyBool(TRUE)), Some(PyList),
      Some(PyStr(<< "0", ".", "5" >>)), Some(PyStr(<< "h", "i", "g", "h" >>)) }
    \cup { Some(PyFloat(h)) : h \in ConfidenceLevels }

JsonObjects == { PyDict(m, c) : m \in MachineValues, c \in ConfidenceValues }

\* the objects that also come wrapped in prose
EmbeddedObjects ==
    { PyDict(m, c) : m \in MachineValues, c \in { None, Some(PyFloat(75)) } }

\* The text of a model answer, by how json.loads takes it:
\*   json       the whole text is one JSON value
\*   embedded   prose around one JSON object: text[start:end + 1] is that object
\*   plain      not JSON, and no "{" or no "}"
\*   reversed   not JSON, the last "}" comes before the first "{"
\*   garbled    not JSON, and neither is text[start:end + 1]
Texts ==
    { [ form |-> "json", value |-> v ] :
         v \in JsonObjects \cup { PyNone, PyBool(TRUE), PyInt(42), PyList,
                                  PyStr(<< "T", "r", "e", "a", "d", "m", "i", "l", "l" >>) } }
    \cup { [ form |-> "embedded", value |-> v ] : v \in EmbeddedObjects }
    \cup { [ form |-> f, value |-> PyNone ] : f \in { "plain", "reversed", "garbled" } }

\* ---------------------------------------------------------- str methods

UPPERCASE ==
    << "A", "B", "C", "D", "E", "F", "G", "H", "I", "J", "K", "L", "M",
       "N", "O", "P", "Q", "R", "S", "T", "U", "V", "W", "X", "Y", "Z" >>

LOWERCASE ==
    << "a", "b", "c", "d", "e", "f", "g", "h", "i", "j", "k", "l", "m",
       "n", "o", "p", "q", "r", "s", "t", "u", "v", "w", "x", "y", "z" >>

DIGITS == << "0", "1", "2", "3", "4", "5", "6", "7", "8", "9" >>

Range(s) == { s[i] : i \in 1..Len(s) }

\* the characters \s matches and strip() removes
Whitespace == { " " }

\* str.lower()
lower(s) ==
    [ i \in 1..Len(s) |->
        IF s[i] \in Range(UPPERCASE)
        THEN LOWERCASE[CHOOSE k \in 1..Len(UPPERCASE) : UPPERCASE[k] = s[i]]
        ELSE s[i] ]

\* re.sub(r"[^a-z0-9\s]", " ", s)
sub_other_chars(s) ==
    [ i \in 1..Len(s) |->
        IF s[i] \in Range(LOWERCASE) \cup Range(DIGITS) \cup Whitespace THEN s[i] ELSE " " ]

\* str.lstrip()
RECURSIVE lstrip(_)
lstrip(s) == IF s # << >> /\ Head(s) \in Whitespace THEN lstrip(Tail(s)) ELSE s

\* re.sub(r"\s+", " ", s)
RECURSIVE sub_whitespace_runs(_)
sub_whitespace_runs(s) ==
    IF s = << >> THEN << >>
    ELSE IF Head(s) \in Whitespace THEN << " " >> \o sub_whitespace_runs(lstrip(s))
    ELSE << Head(s) >> \o sub_whitespace_runs(Tail(s))

\* str.rstrip()
RECURSIVE rstrip(_)
rstrip(s) ==
    IF s # << >> /\ s[Len(s)] \in Whitespace THEN rstrip(SubSeq(s, 1, Len(s) - 1)) ELSE s

\* str.strip()
strip(s) == rstrip(lstrip(s))

\* a in b, for str
contains(b, a) == \E i \in 1..(Len(b) - Len(a) + 1) : SubSeq(b, i, i + Len(a) - 1) = a

\* str(x) of a str or a one-digit int
str(x) == IF x.t = "str" THEN x.v ELSE << DIGITS[x.v + 1] >>

\* bool(x), as `not machine` takes it
truthy(x) ==
    CASE x.t = "None" -> FALSE
      [] x.t = "bool" -> x.v
      [] x.t = "int" -> x.v # 0
      [] x.t = "str" -> x.v # << >>
      [] OTHER -> TRUE

\* ------------------------------------------------------------- fractions

\* A match score is the exact fraction << numerator, denominator >> in lowest
\* terms: 2.0 * matches / length and the literals it is compared with are far
\* enough apart, for the lengths of names, that float rounding never changes
\* the outcome of a comparison.
RECURSIVE GCD(_, _)
GCD(a, b) == IF b = 0 THEN a ELSE GCD(b, a % b)

Fraction(n, d) == IF n = 0 THEN << 0, 1 >> ELSE << n \div GCD(n, d), d \div GCD(n, d) >>

Less(x, y) == x[1] * y[2] < y[1] * x[2]

AtLeast(x, y) == ~Less(x, y)

\* ------------------------------------------------ difflib.SequenceMatcher

\* the length of the longest common prefix of a[i:] and b[j:]
RECURSIVE common(_, _, _, _)
common(a, b, i, j) ==
    IF i > Len(a) \/ j > Len(b) THEN 0
    ELSE IF a[i] # b[j] THEN 0
    ELSE 1 + common(a, b, i + 1, j + 1)

\* for every pair of positions, the length of the block that starts there
block_sizes(a, b) ==
    [ p \in (1..Len(a)) \X (1..Len(b)) |-> common(a, b, p[1], p[2]) ]

\* the longest block, the earliest in a, then the earliest in b
best_block(size) ==
    CHOOSE m \in { << p[1], p[2], size[p] >> : p \in DOMAIN size } :
       \A q \in DOMAIN size :
          \/ size[q] < m[3]
          \/ /\ size[q] = m[3]
             /\ \/ m[1] < q[1]
                \/ m[1] = q[1] /\ m[2] <= q[2]

\* SequenceMatcher.find_longest_match over the whole of a and b (no junk:
\* isjunk is None and the names are far shorter than 200 characters): the
\* block << i, j, k >> with a[i:i+k] = b[j:j+k]
find_longest_match(a, b) == best_block(block_sizes(a, b))

\* the sum of the sizes of SequenceMatcher.get_matching_blocks(): the longest
\* match m, then the same to its left and to its right
RECURSIVE matches(_, _)
RECURSIVE matches_around(_, _, _)
matches_around(a, b, m) ==
    IF m[3] = 0 THEN 0
    ELSE m[3]
         + matches(SubSeq(a, 1, m[1] - 1), SubSeq(b, 1, m[2] - 1))
         + matches(SubSeq(a, m[1] + m[3], Len(a)), SubSeq(b, m[2] + m[3], Len(b)))

matches(a, b) ==
    IF a = << >> \/ b = << >> THEN 0 ELSE matches_around(a, b, find_longest_match(a, b))

\* SequenceMatcher(None, a, b).ratio()
ratio(a, b) ==
    IF Len(a) + Len(b) = 0 THEN << 1, 1 >>
    ELSE Fraction(2 * matches(a, b), Len(a) + Len(b))

\* -------------------------------------------------- _canonicalize_machine

\* VLMClient._normalize_machine_text
normalize_machine_text(value) ==
    strip(sub_whitespace_runs(sub_other_chars(lower(value))))

\* max(score, 0.95)
raised(score) == IF Less(score, << 19, 20 >>) THEN << 19, 20 >> ELSE score

\* a containment test that never raises the score
with_containment_ignored(score, normalized_value, option_normalized) == score

\* lines 423-424: the score raised to 0.95 when one normalized text contains
\* the other
with_containment(score, normalized_value, option_normalized) ==
    IF contains(normalized_value, option_normalized)
       \/ contains(option_normalized, normalized_value)
    THEN raised(score)
    ELSE score

\* the score one option gets in the loop
option_score(normalized_value, option_normalized) ==
    with_containment(ratio(normalized_value, option_normalized),
                     normalized_value, option_normalized)

\* an exact match that reports the containment score
exact_match_as_containment(option) == [ option |-> Some(option), score |-> << 19, 20 >> ]

\* an exact match that hands back the normalized text
exact_match_normalized(option) ==
    [ option |-> Some(normalize_machine_text(option)), score |-> << 1, 1 >> ]

\* `return option, 1.0`
exact_match(option) == [ option |-> Some(option), score |-> << 1, 1 >> ]

\* a comparison that lets a later option with the same score win
better_or_equal(score, best_score) == ~Less(score, best_score)

\* `score > best_score`: a later option replaces the best one so far
better(score, best_score) == Less(best_score, score)

\* an acceptance that wants more than 0.65
accepted_above(best_option, best_score) ==
    /\ best_option # None
    /\ best_option[1] # << >>
    /\ Less(<< 13, 20 >>, best_score)

\* `best_option and best_score >= 0.65`
accepted(best_option, best_score) ==
    /\ best_option # None
    /\ best_option[1] # << >>
    /\ AtLeast(best_score, << 13, 20 >>)

\* the return after the loop
after_loop(best_score, best_option) ==
    IF accepted(best_option, best_score)
    THEN [ option |-> best_option, score |-> best_score ]
    ELSE [ option |-> None, score |-> best_score ]

\* the for loop over the options still to visit: the body for the first of
\* them (visit, then keep_best with its score), and the rest
RECURSIVE scan_options(_, _, _, _)
RECURSIVE visit(_, _, _, _, _)
RECURSIVE keep_best(_, _, _, _, _)
keep_best(normalized_value, options, score, best_score, best_option) ==
    IF better(score, best_score)
    THEN scan_options(normalized_value, Tail(options), score, Some(Head(options)))
    ELSE scan_options(normalized_value, Tail(options), best_score, best_option)

visit(normalized_value, options, option_normalized, best_score, best_option) ==
    IF option_normalized = normalized_value
    THEN exact_match(Head(options))
    ELSE keep_best(normalized_value, options,
                   option_score(normalized_value, option_normalized),
                   best_score, best_option)

scan_options(normalized_value, options, best_score, best_option) ==
    IF options = << >> THEN after_loop(best_score, best_option)
    ELSE visit(normalized_value, options, normalize_machine_text(Head(options)),
               best_score, best_option)

\* _canonicalize_machine after the first line
canonicalize_normalized(normalized_value, options) ==
    IF normalized_value = << >> THEN [ option |-> None, score |-> << 0, 1 >> ]
    ELSE scan_options(normalized_value, options, << 0, 1 >>, None)

\* VLMClient._canonicalize_machine: the option it returns and the score
canonicalize_machine(value, options) ==
    canonicalize_normalized(normalize_machine_text(value), options)

\* ---------------------------------------------------- _parse_machine_json

\* what a call of the parser comes to: a dict, None, or an exception
ParseResult(value) == [ kind |-> "result", exception |-> None, value |-> Some(value) ]

ParseNone == [ kind |-> "none", exception |-> None, value |-> None ]

ParseRaise(exception) == [ kind |-> "raise", exception |-> Some(exception), value |-> None ]

\* json.loads(text), and on JSONDecodeError json.loads(text[start:end + 1]):
\* the value, or None where the parser returns None
loads(text) ==
    IF text.form \in { "json", "embedded" } THEN Some(text.value) ELSE None

\* dict.get(key)
get(field) == IF field = None THEN PyNone ELSE field[1]

\* float(str): the strings that spell a number
float_of_str(s) ==
    IF s = << "0", ".", "5" >> THEN Some(50) ELSE None

\* a float(x) whose ValueError is not caught
float_uncaught(x) ==
    CASE x.t = "float" -> [ kind |-> "ok", value |-> x ]
      [] x.t = "int" -> [ kind |-> "ok", value |-> PyFloat(100 * x.v) ]
      [] x.t = "bool" -> [ kind |-> "ok", value |-> PyFloat(IF x.v THEN 100 ELSE 0) ]
      [] x.t = "bigint" -> [ kind |-> "raise", exception |-> "OverflowError" ]
      [] x.t = "str" -> IF float_of_str(x.v) # None
                        THEN [ kind |-> "ok", value |-> PyFloat(float_of_str(x.v)[1]) ]
                        ELSE [ kind |-> "raise", exception |-> "ValueError" ]
      [] OTHER -> [ kind |-> "caught" ]

\* float(x) under `except (TypeError, ValueError)`: the float, "caught" when
\* one of the two is raised, or the exception that escapes
float(x) ==
    CASE x.t = "float" -> [ kind |-> "ok", value |-> x ]
      [] x.t = "int" -> [ kind |-> "ok", value |-> PyFloat(100 * x.v) ]
      [] x.t = "bool" -> [ kind |-> "ok", value |-> PyFloat(IF x.v THEN 100 ELSE 0) ]
      [] x.t = "bigint" -> [ kind |-> "raise", exception |-> "OverflowError" ]
      [] x.t = "str" -> IF float_of_str(x.v) # None
                        THEN [ kind |-> "ok", value |-> PyFloat(float_of_str(x.v)[1]) ]
                        ELSE [ kind |-> "caught" ]
      [] OTHER -> [ kind |-> "caught" ]

\* min(a, b) and max(a, b) of two floats: the first argument unless the
\* second compares smaller (larger); no comparison with nan is true
min(a, b) == IF ~a.nan /\ ~b.nan /\ b.v < a.v THEN b ELSE a

max(a, b) == IF ~a.nan /\ ~b.nan /\ b.v > a.v THEN b ELSE a

\* max(0.0, min(1.0, confidence_value)), in hundredths
clamp(confidence_value) == max(PyFloat(0), min(PyFloat(100), confidence_value)).v

\* a cap that also applies at 0.9
fuzzy_or_equal(match_score) == ~Less(<< 9, 10 >>, match_score)

\* `match_score is not None and match_score < 0.9`
fuzzy(match_score) == Less(match_score, << 9, 10 >>)

\* an unmapped result that keeps the clamped confidence
unmapped_confidence_uncapped(confidence) == confidence

\* min(parsed["confidence"], 0.49)
unmapped_confidence(confidence) == IF 49 < confidence THEN 49 ELSE confidence

\* min(parsed["confidence"], 0.6)
fuzzy_confidence(confidence) == IF 60 < confidence THEN 60 ELSE confidence

Unknown == << "U", "n", "k", "n", "o", "w", "n" >>

\* the dict _parse_machine_json returns, from the stripped label, what
\* _canonicalize_machine made of it and the clamped confidence
parsed_dict(raw_machine, canonical, confidence) ==
    [ raw_machine |-> IF raw_machine # << >> THEN Some(raw_machine) ELSE None,
      match_score |-> IF Less(<< 0, 1 >>, canonical.score) THEN Some(canonical.score)
                      ELSE None,
      machine     |-> IF canonical.option # None THEN canonical.option[1]
                      ELSE IF raw_machine # << >> THEN raw_machine
                      ELSE Unknown,
      unmapped    |-> canonical.option = None,
      confidence  |-> IF canonical.option # None
                      THEN (IF fuzzy(canonical.score) THEN fuzzy_confidence(confidence)
                            ELSE confidence)
                      ELSE unmapped_confidence(confidence) ]

\* the tail of _parse_machine_json, from the label raw_machine on
canonicalized(raw_machine, confidence, options) ==
    parsed_dict(raw_machine, canonicalize_machine(raw_machine, options), confidence)

\* VLMClient._parse_machine_json
parse_machine_json(text, options) ==
    LET parsed == loads(text)
    IN  IF parsed = None THEN ParseNone
        ELSE IF parsed[1].t # "dict" THEN ParseRaise("AttributeError")
        ELSE LET machine    == get(parsed[1].machine)
                 confidence == get(parsed[1].confidence)
             IN  IF ~truthy(machine) \/ confidence = PyNone THEN ParseNone
                 ELSE LET confidence_value == float(confidence)
                      IN  IF confidence_value.kind = "caught" THEN ParseNone
                          ELSE IF confidence_value.kind = "raise"
                          THEN ParseRaise(confidence_value.exception)
                          ELSE ParseResult(canonicalized(strip(str(machine)),
                                                         clamp(confidence_value.value),
                                                         options))

\* how the call of _parse_machine_json in _classify_* ends for the service:
\* the upstream outcome the text stands for
OutcomeOf(text, ret) ==
    CASE ret.kind = "result" -> "text_ok"
      [] ret.kind = "raise" /\ ret.exception = Some("AttributeError") -> "text_json_not_object"
      [] ret.kind = "raise" /\ ret.exception # Some("AttributeError") -> "text_huge_confidence"
      [] ret.kind = "none" /\ loads(text) = None -> "text_not_json"
      [] OTHER -> "text_missing_fields"

\* _classify_openai_style from the text of the message on
classify_text(text, ret, trace_id) ==
    classify("openai", OutcomeOf(text, ret),
             IF ret.kind = "result"
             THEN [ machine     |-> ret.value[1].machine,
                    confidence  |-> ret.value[1].confidence,
                    raw_machine |-> ret.value[1].raw_machine,
                    match_score |-> ret.value[1].match_score,
                    unmapped    |-> ret.value[1].unmapped,
                    raw_text    |-> text ]
             ELSE CHOOSE p \in ParsedSamples : TRUE,
             trace_id)

\* --------------------------------------------- the parser on its own

\* A client with its catalog; no call made yet.
ParseInit ==
    /\ machine_options \in Catalogs
    /\ pcall = NoCall
    /\ max_items = MaxItems
    /\ entries = << >>
    /\ last = NoOp
    /\ evicted = {}
    /\ recency = << >>
    /\ watch = None
    /\ enable_mock_responses = TRUE
    /\ api_mode = "openai"
    /\ next_uuid = 1
    /\ pc = [ r \in Requests |-> "idle" ]
    /\ trace = [ r \in Requests |-> 0 ]
    /\ posts = [ r \in Requests |-> 0 ]
    /\ finished = None
    /\ fetched = None
    /\ answered = None
    /\ favorites = {}
    /\ db = [ s \in Sessions |-> NoSession ]
    /\ fdone = None
    /\ running = 0
    /\ work = [ r \in Requests |-> << >> ]
    /\ shadow = << >>

\* The three functions keep nothing between calls, so a behaviour is one call.

\* the call of the parser in _classify_*: its result, and what classify
\* comes to with it
parse_call(text, ret) ==
    [ fn |-> "parse", arg |-> text, ret |-> ret,
      classified |-> classify_text(text, ret, 1) ]

\* self._parse_machine_json(text, trace_id), and what _classify_* makes of it
VLMClient_parse_machine_json(text) ==
    /\ pcall = NoCall
    /\ pcall' = parse_call(text, parse_machine_json(text, machine_options))
    /\ UNCHANGED <<storeVars, serviceVars, machine_options, favVars, loopVars>>

\* self._canonicalize_machine(value)
VLMClient_canonicalize_machine(value) ==
    /\ pcall = NoCall
    /\ pcall' = [ fn |-> "canonicalize", arg |-> value,
                  ret |-> canonicalize_machine(value, machine_options) ]
    /\ UNCHANGED <<storeVars, serviceVars, machine_options, favVars, loopVars>>

\* InferenceService._mock_response(): the fallback path, the entry it records
InferenceService_mock_response ==
    /\ pcall = NoCall
    /\ pcall' = [ fn |-> "mock", arg |-> None, ret |-> mock_response(1).records[1] ]
    /\ UNCHANGED <<storeVars, serviceVars, machine_options, favVars, loopVars>>

ParseNext ==
    \/ \E text \in Texts : VLMClient_parse_machine_json(text)
    \/ \E value \in RawLabels \cup Range(machine_options) :
          VLMClient_canonicalize_machine(value)
    \/ InferenceService_mock_response

SpecParse == ParseInit /\ [][ParseNext]_vars

\* ----------------------------------------------------- the favorites router

\* get_current_user: the users that call the router
Users == { "550e8400", "660e8400" }

\* the ids of the rows of table machines
Machines == { "test-machine-1", "test-machine-2" }

\* the machine ids requests name: the last one is the id of no machine
MachineIds == Machines \cup { "non-existent" }

\* FavoriteCreate.notes
Notes == { Some("Test") }

\* a row of table favorites; (user_id, machine_id) is its primary key
Favorite(user_id, machine_id, notes) ==
    [ user_id |-> user_id, machine_id |-> machine_id, notes |-> notes ]

\* select(Machine).where(Machine.id == machine_id)
select_machine(machine_id) == { m \in Machines : m = machine_id }

\* select(Favorite).where(Favorite.user_id == user_id,
\*                        Favorite.machine_id == machine_id)
select_favorite(table, user_id, machine_id) ==
    { f \in table : f.user_id = user_id /\ f.machine_id = machine_id }

\* a DELETE of one favorite that leaves the user out of its WHERE
delete_where_machine(table, user_id, machine_id) ==
    { f \in table : f.machine_id = machine_id }

\* delete(Favorite).where(Favorite.user_id == user_id,
\*                        Favorite.machine_id == machine_id): the rows it removes
delete_where(table, user_id, machine_id) ==
    { f \in table : f.user_id = user_id /\ f.machine_id = machine_id }

\* delete(Favorite).where(Favorite.user_id == user_id): the rows it removes
delete_where_user(table, user_id) == { f \in table : f.user_id = user_id }

\* the primary keys of a set of rows
Keys(table) == { << f.user_id, f.machine_id >> : f \in table }

\* A fresh database, no request in flight.
FavInit ==
    /\ favorites = {}
    /\ db = [ s \in Sessions |-> NoSession ]
    /\ fdone = None
    /\ running = 0
    /\ work = [ r \in Requests |-> << >> ]
    /\ shadow = << >>
    /\ max_items = MaxItems
    /\ entries = << >>
    /\ last = NoOp
    /\ evicted = {}
    /\ recency = << >>
    /\ watch = None
    /\ enable_mock_responses = TRUE
    /\ api_mode = "openai"
    /\ next_uuid = 1
    /\ pc = [ r \in Requests |-> "idle" ]
    /\ trace = [ r \in Requests |-> 0 ]
    /\ posts = [ r \in Requests |-> 0 ]
    /\ finished = None
    /\ fetched = None
    /\ answered = None
    /\ machine_options = DEFAULT_MACHINE_OPTIONS
    /\ pcall = NoCall

\* Sessions are interchangeable: a new request takes the first free one.
FreeSession(s) == db[s].op = "none" /\ \A t \in Sessions : t < s => db[t].op # "none"

\* the request of session s goes on to its next statement
Proceed(s, op, user_id, machine_id, notes, at) ==
    /\ db' = [ db EXCEPT ![s] = [ op |-> op, user_id |-> user_id, machine_id |-> machine_id,
                                  notes |-> notes, pc |-> at ] ]
    /\ UNCHANGED <<favorites, fdone>>

\* the request of session s ends with status_code; get_db commits after a
\* return and rolls back after an exception, and the table becomes `after`.
\* found: whether the user had a favorite of the machine when the request's
\* query for it ran.
Answer(s, op, user_id, machine_id, status, found, after) ==
    /\ db' = [ db EXCEPT ![s] = NoSession ]
    /\ favorites' = after
    /\ fdone' = Some([ op |-> op, user_id |-> user_id, machine_id |-> machine_id,
                       status_code |-> status,
                       found   |-> found,
                       existed |-> << user_id, machine_id >> \in Keys(favorites),
                       removed |-> favorites \ after,
                       added   |-> after \ favorites,
                       own     |-> { f \in after : f.user_id = user_id } ])

\* POST /favorites up to the answer of the machine query: 404 when no
\* machine has the id
create_favorite(s, user_id, machine_id, notes) ==
    /\ FreeSession(s)
    /\ IF select_machine(machine_id) = {}
       THEN Answer(s, "create", user_id, machine_id, 404, FALSE, favorites)
       ELSE Proceed(s, "create", user_id, machine_id, notes, "existing")
    /\ UNCHANGED <<storeVars, serviceVars, parserVars, loopVars>>

\* the query for an existing favorite comes back: 409 when there is one
create_favorite_existing(s) ==
    /\ db[s].op = "create"
    /\ db[s].pc = "existing"
    /\ IF select_favorite(favorites, db[s].user_id, db[s].machine_id) # {}
       THEN Answer(s, "create", db[s].user_id, db[s].machine_id, 409, TRUE, favorites)
       ELSE Proceed(s, "create", db[s].user_id, db[s].machine_id, db[s].notes, "commit")
    /\ UNCHANGED <<storeVars, serviceVars, parserVars, loopVars>>

\* db.add and `await db.commit()`: the INSERT is flushed and committed.  A
\* row with the same primary key makes it fail with IntegrityError, which no
\* handler catches: get_db rolls back and the caller gets a 500.  Otherwise
\* the row is stored and the handler returns 201.
create_favorite_commit(s) ==
    /\ db[s].op = "create"
    /\ db[s].pc = "commit"
    /\ IF << db[s].user_id, db[s].machine_id >> \in Keys(favorites)
       THEN Answer(s, "create", db[s].user_id, db[s].machine_id, 500, FALSE, favorites)
       ELSE Answer(s, "create", db[s].user_id, db[s].machine_id, 201, FALSE,
                   favorites \cup { Favorite(db[s].user_id, db[s].machine_id, db[s].notes) })
    /\ UNCHANGED <<storeVars, serviceVars, parserVars, loopVars>>

\* DELETE /favorites/{machine_id} up to the answer of its query: 404 when the
\* user has no such favorite
delete_favorite(s, user_id, machine_id) ==
    /\ FreeSession(s)
    /\ IF select_favorite(favorites, user_id, machine_id) = {}
       THEN Answer(s, "delete", user_id, machine_id, 404, FALSE, favorites)
       ELSE Proceed(s, "delete", user_id, machine_id, None, "execute")
    /\ UNCHANGED <<storeVars, serviceVars, parserVars, loopVars>>

\* `await db.execute(delete_stmt)` and `await db.commit()`: the rows that
\* match when the statement runs are removed.  Until the commit no other
\* session sees them gone and a statement that writes one of them waits, so
\* the two awaits are one step.
delete_favorite_execute(s) ==
    /\ db[s].op = "delete"
    /\ db[s].pc = "execute"
    /\ Answer(s, "delete", db[s].user_id, db[s].machine_id, 204, TRUE,
              favorites \ delete_where(favorites, db[s].user_id, db[s].machine_id))
    /\ UNCHANGED <<storeVars, serviceVars, parserVars, loopVars>>

\* DELETE /favorites: the DELETE statement and the commit, one step for the
\* same reason; the user's rows that are there when the statement runs are
\* removed; 204
clear_all_favorites(s, user_id) ==
    /\ FreeSession(s)
    /\ Answer(s, "clear", user_id, "", 204, FALSE,
              favorites \ delete_where_user(favorites, user_id))
    /\ UNCHANGED <<storeVars, serviceVars, parserVars, loopVars>>

FavNext ==
    \/ \E s \in Sessions : \E u \in Users : \E m \in MachineIds : \E n \in Notes :
          create_favorite(s, u, m, n)
    \/ \E s \in Sessions : create_favorite_existing(s)
    \/ \E s \in Sessions : create_favorite_commit(s)
    \/ \E s \in Sessions : \E u \in Users : \E m \in MachineIds : delete_favorite(s, u, m)
    \/ \E s \in Sessions : delete_favorite_execute(s)
    \/ \E s \in Sessions : \E u \in Users : clear_all_favorites(s, u)

SpecFav == FavInit /\ [][FavNext]_vars

\* ------------------------------- the store under the asyncio event loop

\* The handlers are coroutines of one event loop: a task runs until it awaits,
\* and only then does the loop run another one.  identify awaits the upstream
\* call; record, get, clear and _trim are plain functions.  Their statements
\* are separate steps here.

\* a record that awaits after it has stored the entry, before _trim
awaits_in_record(at) == at \in { "awaiting", "setitem" }

\* whether the statement at label `at` is an await: only client.post is
awaits(at) == at = "awaiting"

\* the statements inside a store operation that has begun and not ended
Inside == { "setitem", "trim", "move_to_end" }

\* the loop lets task r take its next step
Runs(r) == running = r \/ (running = 0 /\ pc[r] # "idle")

\* The process, as in Init; the upstream speaks the OpenAI protocol.
LoopInit ==
    /\ max_items \in 1..MaxItems
    /\ entries = << >>
    /\ last = NoOp
    /\ evicted = {}
    /\ recency = << >>
    /\ watch = None
    /\ enable_mock_responses \in BOOLEAN
    /\ api_mode = "openai"
    /\ next_uuid = 1
    /\ pc = [ r \in Requests |-> "idle" ]
    /\ trace = [ r \in Requests |-> 0 ]
    /\ posts = [ r \in Requests |-> 0 ]
    /\ finished = None
    /\ fetched = None
    /\ answered = None
    /\ machine_options = DEFAULT_MACHINE_OPTIONS
    /\ pcall = NoCall
    /\ favorites = {}
    /\ db = [ s \in Sessions |-> NoSession ]
    /\ fdone = None
    /\ running = 0
    /\ work = [ r \in Requests |-> << >> ]
    /\ shadow = << >>

loopFrame == <<max_items, storeHistory, enable_mock_responses, api_mode, posts, finished,
               fetched, answered, parserVars, favVars>>

\* task r has run the statement at label `at` and goes on to `to`
Goto(r, at, to) ==
    /\ pc' = [ pc EXCEPT ![r] = to ]
    /\ running' = IF to = "idle" \/ awaits(at) THEN 0 ELSE r

\* POST /identify: the task runs up to `await client.post(...)`
task_identify(r) ==
    /\ running = 0
    /\ FreeSlot(r)
    /\ next_uuid <= MaxUuids
    /\ trace' = [ trace EXCEPT ![r] = next_uuid ]
    /\ next_uuid' = next_uuid + 1
    /\ Goto(r, "awaiting", "awaiting")
    /\ UNCHANGED <<entries, work, shadow, loopFrame>>

\* the upstream call has come back with outcome o: the task is resumed and
\* runs classify and identify up to the first trace_store.record
task_identify_resume(r, o, p) ==
    LET res == identify(classify(api_mode, o, p, trace[r]), enable_mock_responses, next_uuid)
    IN  /\ Runs(r)
        /\ pc[r] = "awaiting"
        /\ next_uuid + res.uuids <= MaxUuids + 1
        /\ next_uuid' = next_uuid + res.uuids
        /\ work' = [ work EXCEPT ![r] = res.records ]
        /\ Goto(r, "resume", IF res.records = << >> THEN "idle" ELSE "pop")
        /\ trace' = [ trace EXCEPT ![r] = IF res.records = << >> THEN 0 ELSE @ ]
        /\ UNCHANGED <<entries, shadow, loopFrame>>

\* record: `if trace_id in self._entries: self._entries.pop(trace_id)`
TraceStore_record_pop(r) ==
    /\ Runs(r)
    /\ pc[r] = "pop"
    /\ entries' = IF Contains(entries, Head(work[r]).trace_id)
                  THEN Pop(entries, Head(work[r]).trace_id)
                  ELSE entries
    /\ shadow' = record(shadow, Head(work[r]), max_items)
    /\ Goto(r, "pop", "setitem")
    /\ UNCHANGED <<next_uuid, trace, work, loopFrame>>

\* record: `self._entries[trace_id] = entry`
TraceStore_record_setitem(r) ==
    /\ Runs(r)
    /\ pc[r] = "setitem"
    /\ entries' = setitem(entries, Head(work[r]))
    /\ Goto(r, "setitem", "trim")
    /\ UNCHANGED <<next_uuid, trace, work, shadow, loopFrame>>

\* _trim: one test of the while condition, and one popitem when it holds
TraceStore_trim_popitem(r) ==
    /\ Runs(r)
    /\ pc[r] = "trim"
    /\ Len(entries) > max_items
    /\ entries' = popitem_first(entries)
    /\ Goto(r, "trim", "trim")
    /\ UNCHANGED <<next_uuid, trace, work, shadow, loopFrame>>

\* _trim and record return; the task goes on to its next record, or ends
TraceStore_trim_return(r) ==
    /\ Runs(r)
    /\ pc[r] = "trim"
    /\ Len(entries) <= max_items
    /\ work' = [ work EXCEPT ![r] = Tail(@) ]
    /\ Goto(r, "trim", IF Tail(work[r]) = << >> THEN "idle" ELSE "pop")
    /\ trace' = [ trace EXCEPT ![r] = IF Tail(work[r]) = << >> THEN 0 ELSE @ ]
    /\ UNCHANGED <<next_uuid, entries, shadow, loopFrame>>

\* GET /traces/{trace_id}: the task runs up to trace_store.get
task_fetch_trace(r, trace_id) ==
    /\ running = 0
    /\ FreeSlot(r)
    /\ trace' = [ trace EXCEPT ![r] = trace_id ]
    /\ Goto(r, "fetch", "get")
    /\ UNCHANGED <<next_uuid, entries, work, shadow, loopFrame>>

\* get: `entry = self._entries.get(trace_id)`, and `if entry:`
TraceStore_get_lookup(r) ==
    /\ Runs(r)
    /\ pc[r] = "get"
    /\ shadow' = get_entries(shadow, trace[r])
    /\ Goto(r, "get", IF get_value(entries, trace[r]) # None THEN "move_to_end" ELSE "idle")
    /\ trace' = [ trace EXCEPT ![r] = IF get_value(entries, trace[r]) # None THEN @ ELSE 0 ]
    /\ UNCHANGED <<next_uuid, entries, work, loopFrame>>

\* get: `self._entries.move_to_end(trace_id)` (KeyError when the id is gone,
\* the store is left as it is), and the return
TraceStore_get_move_to_end(r) ==
    /\ Runs(r)
    /\ pc[r] = "move_to_end"
    /\ entries' = IF Contains(entries, trace[r]) THEN move_to_end(entries, trace[r])
                  ELSE entries
    /\ Goto(r, "move_to_end", "idle")
    /\ trace' = [ trace EXCEPT ![r] = 0 ]
    /\ UNCHANGED <<next_uuid, work, shadow, loopFrame>>

\* trace_store.clear(), as the test set-up calls it: one statement
task_clear ==
    /\ running = 0
    /\ entries' = clear(entries)
    /\ shadow' = clear(shadow)
    /\ UNCHANGED <<next_uuid, pc, trace, work, running, loopFrame>>

LoopNext ==
    \/ \E r \in Requests : task_identify(r)
    \/ \E r \in Requests : \E o \in Outcomes(api_mode) \ { "text_ok" } :
          task_identify_resume(r, o, CHOOSE p \in ParsedSamples : TRUE)
    \/ \E r \in Requests : \E p \in ParsedSamples : task_identify_resume(r, "text_ok", p)
    \/ \E r \in Requests : TraceStore_record_pop(r)
    \/ \E r \in Requests : TraceStore_record_setitem(r)
    \/ \E r \in Requests : TraceStore_trim_popitem(r)
    \/ \E r \in Requests : TraceStore_trim_return(r)
    \/ \E r \in Requests : \E t \in 1..MaxUuids : task_fetch_trace(r, t)
    \/ \E r \in Requests : TraceStore_get_lookup(r)
    \/ \E r \in Requests : TraceStore_get_move_to_end(r)
    \/ task_clear

SpecLoop == LoopInit /\ [][LoopNext]_vars

\* ------------------------------------------------- claims on the TraceStore

\* C1: after any sequence of record, get and clear operations on a TraceStore
\* with capacity N (max_items), the number of stored entries never exceeds N.
C1_NeverExceedsCapacity == Len(entries) <= max_items

\* a record of a new id arrived at a store that was full, with room for two or more
C1_Witness ==
    /\ last.op = "record"
    /\ max_items >= 2
    /\ Len(last.before) = max_items
    /\ ~Contains(last.before, last.trace_id)
    /\ Len(entries) = max_items

\* C2: when the store holds exactly max_items entries and record is called
\* with a trace id not in the store, exactly one entry is evicted, it is the
\* one least recently inserted or accessed (by record or get), and every
\* other previously stored entry is still present.
C2_EvictsExactlyLeastRecent ==
    (/\ last.op = "record"
     /\ Len(last.before) = max_items
     /\ ~Contains(last.before, last.trace_id))
    => LET gone == (Ids(last.before) \cup {last.trace_id}) \ Ids(entries)
           lru  == IF last.lru = 0 THEN last.trace_id ELSE last.lru
       IN  /\ Cardinality(gone) = 1
           /\ gone = {lru}
           /\ \A i \in 1..Len(last.before) :
                 last.before[i].trace_id # lru
                 => Lookup(entries, last.before[i].trace_id) = Some(last.before[i])

\* a get refreshed an entry, and then the record of a new id on the full
\* store evicted another entry and kept the refreshed one
C2_Witness ==
    /\ last.op = "record"
    /\ max_items >= 2
    /\ Len(last.before) = max_items
    /\ ~Contains(last.before, last.trace_id)
    /\ watch # None
    /\ Contains(entries, watch[1].trace_id)
    /\ last.lru \in evicted
    /\ ~Contains(entries, last.lru)

\* C3: get on an evicted id returns not-found; get on a present id makes that
\* entry the most recent one, so that among the entries present at that moment
\* it is the last one evicted by subsequent record calls of new ids.
C3_GetEvictedAndRefresh ==
    /\ (last.op = "get" /\ last.trace_id \in evicted) => last.ret = None
    /\ (last.op = "get" /\ last.ret # None)
         => /\ last.ret = Lookup(last.before, last.trace_id)
            /\ entries[Len(entries)] = last.ret[1]
    /\ (watch # None /\ ~Contains(entries, watch[1].trace_id)) => watch[1].peers = {}

\* the refreshed id was the oldest one in the store, records of new ids have
\* since evicted every entry stored with it, and it is still stored
C3_Witness ==
    /\ watch # None
    /\ Contains(entries, watch[1].trace_id)
    /\ watch[1].peers = {}
    /\ Len(entries) >= 2
    /\ evicted # {}
    /\ last.op = "record"

\* C4: record with a trace id that is already stored replaces the old entry
\* (one entry per id afterwards) and makes the new entry the most recent one.
C4_RecordExistingReplaces ==
    (last.op = "record" /\ Contains(last.before, last.trace_id))
    => /\ Cardinality({ i \in 1..Len(entries) : entries[i].trace_id = last.trace_id }) = 1
       /\ Lookup(entries, last.trace_id) = last.entry
       /\ entries[Len(entries)] = last.entry[1]
       /\ recency[Len(recency)] = last.trace_id
       /\ Len(entries) = Len(last.before)

\* an id stored first of several was recorded again with another payload
C4_Witness ==
    /\ last.op = "record"
    /\ Len(last.before) >= 2
    /\ last.before[1].trace_id = last.trace_id
    /\ last.before[1] # last.entry[1]

\* C5 as stated: for any configured capacity, record(e) followed at once by
\* get(e.trace_id) returns an entry equal to e in all fields.
C5_RoundTripAnyCapacity ==
    (/\ last.op = "get"
     /\ last.prev # None
     /\ last.prev[1].trace_id = last.trace_id)
    => last.ret = last.prev

\* C5 amended: for every TraceStore of capacity at least 1, record(e) followed
\* at once by get(e.trace_id) returns an entry equal to e in all fields.
C5_RoundTripPositiveCapacity ==
    (/\ max_items >= 1
     /\ last.op = "get"
     /\ last.prev # None
     /\ last.prev[1].trace_id = last.trace_id)
    => last.ret = last.prev

\* the record filled past capacity (something was evicted) and the get that
\* followed returned the entry just recorded
C5_Witness ==
    /\ last.op = "get"
    /\ last.prev # None
    /\ last.prev[1].trace_id = last.trace_id
    /\ last.ret = last.prev
    /\ Len(last.before) = max_items
    /\ evicted # {}

\* --------------------------------------------------- claims on identify

\* the upstream outcomes of the call that ended last which are a transport
\* failure or leave the service with no parsable result
NoUsableResult ==
    { "disabled", "http_error", "status_5xx", "status_4xx", "body_not_json",
      "no_message_text", "hf_error_body", "text_not_json", "text_json_not_object",
      "text_missing_fields", "text_huge_confidence" }

\* C6 as stated: every identify call that ends in SUCCESS or MOCK_FALLBACK
\* (whatever triggered the fallback) records exactly one TraceEntry during
\* that call.
C6_ExactlyOneRecord ==
    (finished # None /\ finished[1].kind = "returned")
    => Len(finished[1].records) = 1

\* C6 amended: every identify call that returns records exactly one
\* TraceEntry under the trace id it returns, as its last record; a fallback
\* triggered by a transport failure has recorded before it one error entry
\* under the failed attempt's own trace id, and every other returning call
\* records nothing else.
C6_OneRecordUnderReturnedId ==
    (finished # None /\ finished[1].kind = "returned")
    => LET f   == finished[1]
           tid == f.response[1].trace_id
       IN  /\ Cardinality({ i \in 1..Len(f.records) : f.records[i].trace_id = tid }) = 1
           /\ f.records[Len(f.records)].trace_id = tid
           /\ f.records[Len(f.records)].error = None
           /\ Len(f.records) = IF f.outcome = "http_error" THEN 2 ELSE 1
           /\ f.outcome = "http_error"
                => /\ f.records[1].trace_id = f.attempt
                   /\ f.records[1].error # None
                   /\ f.attempt # tid

\* a transport failure was answered by the mock fallback: two entries recorded
C6_Witness ==
    /\ finished # None
    /\ finished[1].kind = "returned"
    /\ finished[1].outcome = "http_error"
    /\ finished[1].response[1].mocked
    /\ Len(finished[1].records) = 2

\* C7: with mock fallback enabled, for every upstream outcome that is a
\* transport failure or yields no parsable result, identify returns (does not
\* raise) machine "Unknown", confidence 0.0, mocked = true, and the store
\* holds under the returned trace id an entry with mocked and unmapped true.
C7_FallbackAlwaysReturnsUnknown ==
    (/\ enable_mock_responses
     /\ finished # None
     /\ finished[1].outcome \in NoUsableResult)
    => /\ finished[1].kind = "returned"
       /\ finished[1].response # None
       /\ LET resp == finished[1].response[1]
              e    == Lookup(entries, resp.trace_id)
          IN  /\ resp.machine = "Unknown"
              /\ resp.confidence = 0
              /\ resp.mocked
              /\ e # None
              /\ e[1].mocked
              /\ e[1].unmapped

\* C8: a transport failure with mock fallback disabled propagates as
\* InferenceUnavailable carrying a trace id, and an entry with error set is
\* in the store under that trace id when the error reaches the caller.
C8_TransportFailurePropagatesRecorded ==
    (/\ ~enable_mock_responses
     /\ finished # None
     /\ finished[1].outcome = "http_error")
    => LET f == finished[1]
       IN  /\ f.kind = "InferenceUnavailable"
           /\ f.trace_id = Some(f.attempt)
           /\ Len(f.records) = 1
           /\ f.records[1].trace_id = f.attempt
           /\ f.records[1].error # None
           /\ Lookup(entries, f.attempt) = Some(f.records[1])

\* the error entry went into a store that already held another entry
C8_Witness ==
    /\ ~enable_mock_responses
    /\ finished # None
    /\ finished[1].outcome = "http_error"
    /\ finished[1].kind = "InferenceUnavailable"
    /\ Len(entries) >= 2

C10_EveryPathLeavesATrace ==
    finished # None
    => \E i \in 1..Len(finished[1].records) :
         Lookup(entries, finished[1].records[i].trace_id) = Some(finished[1].records[i])

\* ------------------------------------------------- claims on the parser

\* the call that ended is _parse_machine_json and it returned a dict
Parsed == pcall.fn = "parse" /\ pcall.ret.kind = "result"

\* the object the parser was handed, where the text holds one
IsObject(text) == text.form \in { "json", "embedded" } /\ text.value.t = "dict"

\* the best score the loop of _canonicalize_machine finds for a normalized text
BestScore(normalized_value, options) ==
    LET scores == { option_score(normalized_value, normalize_machine_text(options[i])) :
                       i \in 1..Len(options) }
    IN  CHOOSE s \in scores : \A t \in scores : AtLeast(s, t)

\* C11 as stated: for every upstream text, including text that is valid JSON
\* but not an object (a number, a string, an array, null), _parse_machine_json
\* and _canonicalize_machine never raise: they return a parsed result or no
\* result.
C11_ParserNeverRaises ==
    pcall.fn = "parse" => pcall.ret.kind \in { "result", "none" }

C13_FuzzyMatchCapsConfidence ==
    (Parsed /\ ~pcall.ret.value[1].unmapped)
    => LET given   == float(get(pcall.arg.value.confidence)).value
           clamped == IF given.nan \/ given.v > 100 THEN 100
                      ELSE IF given.v < 0 THEN 0 ELSE given.v
           score   == pcall.ret.value[1].match_score[1]
       IN  IF Less(score, << 9, 10 >>)
           THEN pcall.ret.value[1].confidence = (IF clamped < 60 THEN clamped ELSE 60)
           ELSE pcall.ret.value[1].confidence = clamped

\* an answer that claimed 0.75 for a label matched with a score below 0.9 came
\* out with confidence 0.6
C13_Witness ==
    /\ Parsed
    /\ pcall.arg.value.confidence = Some(PyFloat(75))
    /\ ~pcall.ret.value[1].unmapped
    /\ Less(pcall.ret.value[1].match_score[1], << 9, 10 >>)
    /\ pcall.ret.value[1].confidence = 60

\* C14 as stated: for every numeric input confidence, of any magnitude or
\* sign, the parser yields a result whose confidence lies in [0.0, 1.0]; a
\* value above 1 becomes 1.0 and a value below 0 becomes 0.0 before any cap of
\* the canonicalization applies.
C14_NumericConfidenceIsClamped ==
    (/\ pcall.fn = "parse"
     /\ IsObject(pcall.arg)
     /\ truthy(get(pcall.arg.value.machine))
     /\ get(pcall.arg.value.confidence).t \in { "float", "bigint" })
    => LET given == get(pcall.arg.value.confidence)
       IN  /\ pcall.ret.kind = "result"
           /\ pcall.ret.value[1].confidence \in 0..100
           /\ (given.t = "float" /\ ~given.nan /\ given.v < 0)
              => pcall.ret.value[1].confidence = 0
           /\ (given.t = "float" /\ ~given.nan /\ given.v > 100)
              => pcall.ret.value[1].confidence
                 = (IF pcall.ret.value[1].unmapped THEN 49
                    ELSE IF Less(pcall.ret.value[1].match_score[1], << 9, 10 >>) THEN 60
                    ELSE 100)

\* the first option of the catalog with the normalized text of value
FirstSpelling(value, options) ==
    options[CHOOSE i \in 1..Len(options) :
               /\ normalize_machine_text(options[i]) = normalize_machine_text(value)
               /\ \A j \in 1..(i - 1) :
                     normalize_machine_text(options[j]) # normalize_machine_text(value)]

\* C15 as stated: for every catalog and every entry X of it, canonicalizing
\* the exact string X returns X itself with match score 1.0 and unmapped =
\* false.
C15_ExactNameReturnsItself ==
    /\ (pcall.fn = "canonicalize" /\ pcall.arg \in Range(machine_options))
       => pcall.ret = [ option |-> Some(pcall.arg), score |-> << 1, 1 >> ]
    /\ (/\ Parsed
        /\ get(pcall.arg.value.machine).t = "str"
        /\ get(pcall.arg.value.machine).v \in Range(machine_options))
       => /\ pcall.ret.value[1].machine = get(pcall.arg.value.machine).v
          /\ pcall.ret.value[1].match_score = Some(<< 1, 1 >>)
          /\ ~pcall.ret.value[1].unmapped

\* C15, amended: canonicalizing an entry X returns the first entry of the
\* catalog with the normalized text of X (X itself unless an earlier entry
\* differs from it in case, punctuation or spacing only), with match score 1.0
\* and unmapped = false.
C15_ExactNameReturnsFirstSpelling ==
    /\ (pcall.fn = "canonicalize" /\ pcall.arg \in Range(machine_options))
       => pcall.ret = [ option |-> Some(FirstSpelling(pcall.arg, machine_options)),
                        score |-> << 1, 1 >> ]
    /\ (/\ Parsed
        /\ get(pcall.arg.value.machine).t = "str"
        /\ get(pcall.arg.value.machine).v \in Range(machine_options))
       => /\ pcall.ret.value[1].machine
             = FirstSpelling(get(pcall.arg.value.machine).v, machine_options)
          /\ pcall.ret.value[1].match_score = Some(<< 1, 1 >>)
          /\ ~pcall.ret.value[1].unmapped

\* the second entry of a catalog was canonicalized and an earlier entry with
\* the same normalized text came back in its place
C15_Witness ==
    /\ pcall.fn = "canonicalize"
    /\ Len(machine_options) >= 2
    /\ pcall.arg = machine_options[2]
    /\ pcall.ret = [ option |-> Some(machine_options[1]), score |-> << 1, 1 >> ]

\* the normalized text of value is within an option's, or an option's within it
Contained(value, options) ==
    \E i \in 1..Len(options) :
       \/ contains(normalize_machine_text(options[i]), normalize_machine_text(value))
       \/ contains(normalize_machine_text(value), normalize_machine_text(options[i]))

\* C16 as stated: for every raw text T and catalog such that the normalized
\* form of T is a substring of some entry's normalized form, or that entry's
\* normalized form is a substring of T's, canonicalization returns a match
\* whose score is at least 0.95.
C16_ContainmentScoresHigh ==
    (pcall.fn = "canonicalize" /\ Contained(pcall.arg, machine_options))
    => /\ pcall.ret.option # None
       /\ AtLeast(pcall.ret.score, << 19, 20 >>)

\* C16, amended: the same for every raw text T whose normalized form is not
\* empty.
C16_NonEmptyContainmentScoresHigh ==
    (/\ pcall.fn = "canonicalize"
     /\ normalize_machine_text(pcall.arg) # << >>
     /\ Contained(pcall.arg, machine_options))
    => /\ pcall.ret.option # None
       /\ AtLeast(pcall.ret.score, << 19, 20 >>)

\* a label within an entry (or around one) without being equal to it came
\* back as a match with score 0.95
C16_Witness ==
    /\ pcall.fn = "canonicalize"
    /\ normalize_machine_text(pcall.arg) # << >>
    /\ Contained(pcall.arg, machine_options)
    /\ pcall.ret.option # None
    /\ pcall.ret.score = << 19, 20 >>

InvalidFields(text) ==
    /\ IsObject(text)
    /\ \/ text.value.machine \in { None, Some(PyNone), Some(PyStr(<< >>)) }
       \/ text.value.confidence \in { None, Some(PyNone), Some(PyList) }
       \/ /\ get(text.value.confidence).t = "str"
          /\ get(text.value.confidence).v = << "h", "i", "g", "h" >>

\* what identify makes of a text that is not JSON at all
UnparsableText == [ form |-> "plain", value |-> PyNone ]

\* C18: when the extracted JSON object has no non-empty machine, has no
\* confidence field, or has a confidence that is non-numeric or cannot be
\* coerced to a number, the parser yields None, neither a result nor an
\* exception, and the orchestrator treats it exactly like unparsable output.
C18_InvalidFieldsAreNoResult ==
    (pcall.fn = "parse" /\ InvalidFields(pcall.arg))
    => /\ pcall.ret = ParseNone
       /\ \A mock_enabled \in BOOLEAN :
             identify(pcall.classified, mock_enabled, 2)
             = identify(classify_text(UnparsableText,
                                      parse_machine_json(UnparsableText, machine_options), 1),
                        mock_enabled, 2)

\* an object with a catalog name and the confidence "high" was parsed to None
C18_Witness ==
    /\ pcall.fn = "parse"
    /\ IsObject(pcall.arg)
    /\ pcall.arg.value.machine # None
    /\ get(pcall.arg.value.machine).t = "str"
    /\ get(pcall.arg.value.machine).v \in Range(machine_options)
    /\ get(pcall.arg.value.confidence).t = "str"
    /\ get(pcall.arg.value.confidence).v = << "h", "i", "g", "h" >>
    /\ pcall.ret = ParseNone

\* ------------------------------------------------ claims on the HTTP layer

\* C19 as stated: for every identify call that returns, the response body
\* handed to the HTTP caller carries the unmapped flag, the mocked flag and
\* the confidence with exactly the values the pipeline produced and recorded
\* in the TraceEntry, none of them recomputed or dropped.
C19_ResponseCarriesFlags ==
    (finished # None /\ finished[1].kind = "returned")
    => LET body  == finished[1].response[1]
           entry == finished[1].records[Len(finished[1].records)]
       IN  /\ entry.trace_id = body.trace_id
           /\ body.mocked = entry.mocked
           /\ Some(body.confidence) = entry.confidence
           /\ "unmapped" \in DOMAIN body
           /\ body.unmapped = entry.unmapped

\* C20 as stated: after an identify request answered by the mock fallback,
\* fetching the trace by the returned trace_id yields an entry with that
\* trace_id, mocked = true, machine equal to raw_machine, and unmapped = false.
C20_MockTraceIsMapped ==
    (/\ fetched # None
     /\ finished # None
     /\ finished[1].kind = "returned"
     /\ finished[1].response[1].mocked
     /\ fetched[1].trace_id = finished[1].response[1].trace_id)
    => /\ fetched[1].status_code = 200
       /\ fetched[1].body[1].trace_id = finished[1].response[1].trace_id
       /\ fetched[1].body[1].mocked
       /\ fetched[1].body[1].machine = fetched[1].body[1].raw_machine
       /\ ~fetched[1].body[1].unmapped

\* C21: each identify call invokes the upstream model at most once: after a
\* failed or unusable upstream attempt identify goes directly to the fallback
\* or lets the error through, and never calls the upstream again within that
\* request.
C21_UpstreamCalledAtMostOnce ==
    /\ \A r \in Requests : posts[r] <= 1
    /\ finished # None
       => /\ finished[1].posts <= 1
          /\ finished[1].outcome \in NoUsableResult
             => /\ finished[1].posts = (IF finished[1].outcome = "disabled" THEN 0 ELSE 1)
                /\ finished[1].kind = "returned" => finished[1].response[1].mocked

\* a call whose one upstream attempt came back 5xx ended in the fallback
C21_Witness ==
    /\ finished # None
    /\ finished[1].outcome = "status_5xx"
    /\ finished[1].posts = 1
    /\ finished[1].kind = "returned"
    /\ finished[1].response[1].mocked

\* C22: with mock fallback disabled, both failure kinds of identify reach the
\* HTTP caller as a 503 response: a transport failure (InferenceUnavailable,
\* carrying a trace id) and the exhaustion of inference pathways (the generic
\* RuntimeError); neither is reported as a 200 result or as a 500.
C22_FailuresAnswered503 ==
    (~enable_mock_responses /\ finished # None)
    => /\ finished[1].outcome = "http_error"
          => /\ finished[1].kind = "InferenceUnavailable"
             /\ answered = Some([ status_code |-> 503, body |-> None,
                                  detail |-> Some(finished[1].attempt) ])
       /\ (finished[1].outcome = "disabled" \/ ReturnsNone(finished[1].outcome))
          => /\ finished[1].kind = "RuntimeError"
             /\ answered = Some([ status_code |-> 503, body |-> None, detail |-> None ])
       /\ finished[1].kind \in { "InferenceUnavailable", "RuntimeError" }
          => answered[1].status_code = 503

\* an upstream 4xx with fallback disabled was answered 503
C22_Witness ==
    /\ ~enable_mock_responses
    /\ finished # None
    /\ finished[1].outcome = "status_4xx"
    /\ finished[1].kind = "RuntimeError"
    /\ answered # None
    /\ answered[1].status_code = 503

\* C28: for every result identify returns, mocked = true if and only if the
\* result was synthesized by the fallback path (no parsed upstream response;
\* the trace id is a fresh one, not the attempt's), every mocked result has
\* machine "Unknown" and confidence 0.0, and a result built from a parsed
\* upstream response has mocked = false.
C28_MockedIffFallback ==
    (finished # None /\ finished[1].kind = "returned")
    => LET resp == finished[1].response[1]
       IN  /\ resp.mocked <=> finished[1].outcome # "text_ok"
           /\ resp.mocked <=> resp.trace_id # finished[1].attempt
           /\ resp.mocked => resp.machine = "Unknown" /\ resp.confidence = 0
           /\ finished[1].outcome = "text_ok" => ~resp.mocked

\* an answer without the fields came back as the mocked Unknown
C28_Witness ==
    /\ finished # None
    /\ finished[1].kind = "returned"
    /\ finished[1].outcome = "text_missing_fields"
    /\ finished[1].response[1].mocked
    /\ finished[1].response[1].machine = "Unknown"

\* C29: whenever identify returns a result, the TraceEntry stored under the
\* result's trace_id has the same trace_id, machine, confidence and mocked
\* values as the returned result, on the success path and on the fallback
\* path alike.
C29_StoredEntryMatchesResult ==
    (finished # None /\ finished[1].kind = "returned")
    => LET resp == finished[1].response[1]
           e    == Lookup(entries, resp.trace_id)
       IN  /\ e # None
           /\ e[1].trace_id = resp.trace_id
           /\ e[1].machine = Some(resp.machine)
           /\ e[1].confidence = Some(resp.confidence)
           /\ e[1].mocked = resp.mocked

\* a parsed upstream answer was returned and stored next to an older entry
C29_Witness ==
    /\ finished # None
    /\ finished[1].kind = "returned"
    /\ finished[1].outcome = "text_ok"
    /\ Len(entries) >= 2
    /\ Lookup(entries, finished[1].response[1].trace_id) # None

\* C30: TraceStore.get with a trace id that is not stored returns None and
\* leaves the store unchanged: the same entries remain, in the same recency
\* order.
C30_GetMissingLeavesStore ==
    (last.op = "get" /\ ~Contains(last.before, last.trace_id))
    => /\ last.ret = None
       /\ entries = last.before
       /\ LeastRecent(recency) = last.lru

\* a get missed on a store that holds two entries
C30_Witness ==
    /\ last.op = "get"
    /\ ~Contains(last.before, last.trace_id)
    /\ last.ret = None
    /\ Len(entries) >= 2

\* the positions of the catalog whose normalized text is normalized_value
ExactAt(normalized_value, options) ==
    { i \in 1..Len(options) : normalize_machine_text(options[i]) = normalized_value }

\* the positions of the catalog whose score is the highest one
BestAt(normalized_value, options) ==
    { i \in 1..Len(options) :
         option_score(normalized_value, normalize_machine_text(options[i]))
         = BestScore(normalized_value, options) }

\* the earliest of a set of positions
Earliest(positions) == CHOOSE i \in positions : \A j \in positions : i <= j

C27_MappedMachineIsCatalogEntry ==
    Parsed
    => \/ pcall.ret.value[1].unmapped
       \/ pcall.ret.value[1].machine \in Range(machine_options)

\* a label that is no catalog entry came back as the entry it stands for
C27_Witness ==
    /\ Parsed
    /\ ~pcall.ret.value[1].unmapped
    /\ pcall.ret.value[1].raw_machine # Some(pcall.ret.value[1].machine)
    /\ pcall.ret.value[1].raw_machine[1] \notin Range(machine_options)
    /\ pcall.ret.value[1].machine \in Range(machine_options)

\* ------------------------------------------- claims on the favorites router

\* C23: deleting one favorite or clearing all favorites as user A never
\* removes or changes a favorite owned by another user B: delete of a machine
\* id A has not favorited (only B has) returns 404 and removes nothing, and
\* clear-all removes every favorite of A and none of B.
C23_OthersFavoritesUntouched ==
    (fdone # None /\ fdone[1].op \in { "delete", "clear" })
    => LET d == fdone[1]
       IN  /\ \A f \in d.removed : f.user_id = d.user_id
           /\ d.added = {}
           /\ (d.op = "delete" /\ ~d.found)
              => d.status_code = 404 /\ d.removed = {}
           /\ (d.op = "delete" /\ d.found)
              => /\ d.status_code = 204
                 /\ << d.user_id, d.machine_id >> \notin Keys(d.own)
           /\ d.op = "clear" => d.status_code = 204 /\ d.own = {}

\* a user's two favorites were cleared while another user's favorite stayed
C23_Witness ==
    /\ fdone # None
    /\ fdone[1].op = "clear"
    /\ Cardinality(fdone[1].removed) = 2
    /\ \E f \in favorites : f.user_id # fdone[1].user_id
    /\ \A f \in favorites : f.user_id # fdone[1].user_id

\* C24 as stated: every create_favorite call for a (user, machine) pair that
\* already has a favorite returns 409 Conflict and leaves the stored favorites
\* unchanged, including when the other create for the same pair committed
\* between this call's existence check and its insert.
C24_DuplicateCreateIsConflict ==
    (fdone # None /\ fdone[1].op = "create" /\ fdone[1].existed)
    => /\ fdone[1].status_code = 409
       /\ fdone[1].removed = {}
       /\ fdone[1].added = {}

\* ------------------------------------------- claims on the event loop

\* no two stored entries have the same trace id
DistinctIds(es) == Cardinality(Ids(es)) = Len(es)

\* C26: under any interleaving of concurrent identify requests and trace
\* lookups sharing the process-wide TraceStore, each record, get and clear
\* takes effect atomically: while a task is inside a store operation it is
\* the running task, so no other store operation runs inside it; and between
\* operations the store is what the operations run one at a time make of it,
\* within its capacity and in their recency order.
C26_StoreOperationsAreAtomic ==
    /\ \A r \in Requests : pc[r] \in Inside => running = r
    /\ (\A r \in Requests : pc[r] \notin Inside)
       => /\ entries = shadow
          /\ Len(entries) <= max_items
          /\ DistinctIds(entries)

\* while one request awaits its upstream call, another task is half way
\* through a store operation, the store not yet what the operation makes of it
C26_Witness ==
    /\ \E r \in Requests : pc[r] = "awaiting"
    /\ \E r \in Requests : pc[r] \in Inside /\ running = r
    /\ entries # shadow

====
